---- MODULE Spec2Model ----
(***************************************************************************)
(* parse-jsonschema: conversion of the legacy-tolerant JSON Schema types   *)
(* (src/src/lib.rs) into the schemars types.  The five TryInto impls are   *)
(* modelled as operators over schema trees; each action of the state       *)
(* machine is one call of try_into on a value of one of the five types.    *)
(*                                                                         *)
(* Encoding of the Rust values:                                            *)
(*   Option<T>        None = <<>>, Some(x) = <<x>>                         *)
(*   Vec<T>           a sequence                                           *)
(*   Map<String, T>   a sequence of <<key, value>> pairs, distinct keys,   *)
(*                    in iteration (insertion) order                       *)
(*   Set<String>      a sequence of distinct strings, in iteration order   *)
(*   Result<T, E>     [tag |-> "Ok", val |-> v] / [tag |-> "Err", err |-> e]*)
(*   anyhow::Error    the sequence of its messages, the root cause first   *)
(*                    and every .context(..) appended after it             *)
(***************************************************************************)
EXTENDS Integers, Sequences, FiniteSets, TLC

VARIABLES input, output

vars == <<input, output>>

(***************************************************************************)
(* Option, Result, anyhow                                                  *)
(***************************************************************************)
None == <<>>

Some(x) == <<x>>

Ok(v) == [tag |-> "Ok", val |-> v]

Err(e) == [tag |-> "Err", err |-> e]

IsErr(r) == r.tag = "Err"

IsOk(r) == r.tag = "Ok"

\* bail!("found illegal \"required\" annotation")
IllegalRequired == "found illegal \"required\" annotation"

\* Result::context / Error::context: wrap the error in one more message
Context(r, msg) == IF IsErr(r) THEN Err(Append(r.err, msg)) ELSE r

\* format!("in field '{k}'")
InField(k) == "in field '" \o k \o "'"

\* format!("in pattern property '{k}'")
InPatternProperty(k) == "in pattern property '" \o k \o "'"

(***************************************************************************)
(* The ordered containers                                                  *)
(***************************************************************************)
SetContains(s, k) == \E i \in 1..Len(s) : s[i] = k

\* a slip: a Vec push, with no test for membership
SetInsertDup(s, k) == Append(s, k)

\* Set::insert: a new element goes last, a present one keeps its place
SetInsert(s, k) == IF SetContains(s, k) THEN s ELSE Append(s, k)

MapKeys(m) == [i \in 1..Len(m) |-> m[i][1]]

\* a slip: new entries are put first
MapInsertFront(m, k, v) == <<<<k, v>>>> \o m

\* Map::insert: a new key goes last, a present key keeps its place and
\* takes the new value
MapInsert(m, k, v) ==
    IF \E i \in 1..Len(m) : m[i][1] = k
    THEN [i \in 1..Len(m) |-> IF m[i][1] = k THEN <<k, v>> ELSE m[i]]
    ELSE Append(m, <<k, v>>)

(***************************************************************************)
(* The legacy-tolerant types and their Default values                      *)
(***************************************************************************)
BoolSchema(b) == [kind |-> "Bool", b |-> b]

DefaultSchemaObject ==
    [kind |-> "Object",
     metadata |-> None, instance_type |-> None, format |-> None,
     enum_values |-> None, const_value |-> None, subschemas |-> None,
     number |-> None, string |-> None, array |-> None, object |-> None,
     reference |-> None, required |-> None, extensions |-> <<>>]

DefaultSubschemaValidation ==
    [all_of |-> None, any_of |-> None, one_of |-> None, not |-> None,
     if_schema |-> None, then_schema |-> None, else_schema |-> None]

DefaultArrayValidation ==
    [items |-> None, additional_items |-> None, max_items |-> None,
     min_items |-> None, unique_items |-> None, contains |-> None]

DefaultObjectValidation ==
    [max_properties |-> None, min_properties |-> None, required |-> <<>>,
     properties |-> <<>>, pattern_properties |-> <<>>,
     additional_properties |-> None, property_names |-> None]

Single(s) == [sov |-> "Single", s |-> s]

Vec(v) == [sov |-> "Vec", v |-> v]

(***************************************************************************)
(* The conversions                                                         *)
(***************************************************************************)
RECURSIVE Schema_try_into(_)
RECURSIVE SchemaObject_try_into(_)
RECURSIVE SubschemaValidation_try_into(_)
RECURSIVE ArrayValidation_try_into(_)
RECURSIVE ObjectValidation_try_into(_)

\* Result::map(|u| Some(u)): the Ok half of Option::map(..).transpose()
map_some(r) == IF IsErr(r) THEN r ELSE Ok(Some(r.val))

\* a slip: every field expression is evaluated and the last Err is kept
struct_try_last(fields, order) ==
    IF \E i \in 1..Len(order) : IsErr(fields[order[i]])
    THEN LET last == CHOOSE i \in 1..Len(order) :
                        /\ IsErr(fields[order[i]])
                        /\ \A j \in (i + 1)..Len(order) : IsOk(fields[order[j]])
         IN  fields[order[last]]
    ELSE Ok([f \in DOMAIN fields |-> fields[f].val])

\* A struct literal whose field expressions end in `?`: the fields are
\* evaluated in the order written and the first Err is returned; with no
\* Err the struct is built from the values.  `fields` maps every field to
\* the Result of its expression, `order` is the order they are written in.
\* (The conversions have no side effects, so the first Err in that order
\* is the Err the early return gives.)
struct_try(fields, order) ==
    IF \E i \in 1..Len(order) : IsErr(fields[order[i]])
    THEN LET first == CHOOSE i \in 1..Len(order) :
                        /\ IsErr(fields[order[i]])
                        /\ \A j \in 1..(i - 1) : IsOk(fields[order[j]])
         IN  fields[order[first]]
    ELSE Ok([f \in DOMAIN fields |-> fields[f].val])

\* opt.map(|s| (*s).try_into()).transpose() on an Option<Box<Schema>>
option_schema_try_into(opt) ==
    IF opt = None THEN Ok(None) ELSE map_some(Schema_try_into(opt[1]))

\* v.into_iter().map(|s| s.try_into()): every element is converted
try_each(v) == [i \in 1..Len(v) |-> Schema_try_into(v[i])]

\* a slip: the last error collected is the one returned
last_of(errs) == errs[Len(errs)]

\* what "for e in errs { return Err(e) }" / "for e in errs { bail!(e) }"
\* takes from a non-empty errs: the loop returns in its first iteration
first_of(errs) == errs[1]

\* the fold into (schemas, errs), then the loop over errs
fold_first_err(rs) ==
    IF SelectSeq(rs, IsErr) # <<>>
    THEN first_of(SelectSeq(rs, IsErr))
    ELSE Ok([i \in 1..Len(rs) |-> rs[i].val])

\* the closure map_vec_schema of SubschemaValidation::try_into
map_vec_schema(oms) ==
    IF oms = None THEN Ok(None)
    ELSE map_some(fold_first_err(try_each(oms[1])))

\* Result::map(|u| SingleOrVec::Single(Box::new(u))) and its Vec twin
map_single(r) == IF IsErr(r) THEN r ELSE Ok([sov |-> "Single", s |-> r.val])

map_vec(r) == IF IsErr(r) THEN r ELSE Ok([sov |-> "Vec", v |-> r.val])

\* the inner fn sov_try_into of ArrayValidation::try_into
sov_try_into(sov) ==
    IF sov.sov = "Single"
    THEN map_single(Schema_try_into(sov.s))
    ELSE map_vec(fold_first_err(try_each(sov.v)))

\* self.items.map(sov_try_into).transpose()
option_sov_try_into(opt) ==
    IF opt = None THEN Ok(None) ELSE map_some(sov_try_into(opt[1]))

\* the closure process_props: one step of the fold into (props, errs)
process_props(acc, kv) ==
    IF IsOk(kv[2])
    THEN [props |-> MapInsert(acc.props, kv[1], kv[2].val), errs |-> acc.errs]
    ELSE [props |-> acc.props, errs |-> Append(acc.errs, <<kv[1], kv[2].err>>)]

\* a slip: the fold runs over the entries last to first
RECURSIVE fold_process_props_rev(_, _)
fold_process_props_rev(acc, kvs) ==
    IF kvs = <<>> THEN acc
    ELSE process_props(fold_process_props_rev(acc, Tail(kvs)), Head(kvs))

\* .fold(Default::default(), process_props)
RECURSIVE fold_process_props(_, _)
fold_process_props(acc, kvs) ==
    IF kvs = <<>> THEN acc
    ELSE fold_process_props(process_props(acc, Head(kvs)), Tail(kvs))

\* "for (k, e) in errs { return Err(e.context(format!("in field '{k}'"))) }"
field_errs(acc) ==
    IF acc.errs # <<>>
    THEN Err(Append(first_of(acc.errs)[2], InField(first_of(acc.errs)[1])))
    ELSE Ok(acc.props)

\* "for (k, e) in errs { return Err(e.context(format!("in pattern property '{k}'"))) }"
pattern_errs(acc) ==
    IF acc.errs # <<>>
    THEN Err(Append(first_of(acc.errs)[2], InPatternProperty(first_of(acc.errs)[1])))
    ELSE Ok(acc.props)

\* a slip: the flag is read for hoisting but left on the schema
strip_required_kept(v) == v

\* o.required.take(), seen from the schema that is left behind
strip_required(v) ==
    IF v.kind = "Bool" THEN v ELSE [v EXCEPT !.required = None]

\* a slip: "if let Some(false) = req"
hoist_one_inverted(required, kv) ==
    IF kv[2].kind = "Object" /\ kv[2].required = Some(FALSE)
    THEN SetInsert(required, kv[1])
    ELSE required

\* a slip: "if req.is_some()"
hoist_one_any(required, kv) ==
    IF kv[2].kind = "Object" /\ kv[2].required # None
    THEN SetInsert(required, kv[1])
    ELSE required

\* a slip: one accumulator for the whole subtree, so that the flagged
\* properties of the property's own object land in this set too
hoist_one_deep(required, kv) ==
    LET own == IF kv[2].kind = "Object" /\ kv[2].required = Some(TRUE)
               THEN SetInsert(required, kv[1])
               ELSE required
        deeper == IF kv[2].kind = "Object" /\ kv[2].object # None
                  THEN SelectSeq(kv[2].object[1].properties,
                            LAMBDA g : g[2].kind = "Object" /\ g[2].required = Some(TRUE))
                  ELSE <<>>
    IN  own \o SelectSeq([n \in 1..Len(deeper) |-> deeper[n][1]],
                         LAMBDA k : ~SetContains(own, k))

\* the first closure over self.properties, seen from `required`:
\* "if let Some(true) = req { required.insert(k.clone()) }"
hoist_one(required, kv) ==
    IF kv[2].kind = "Object" /\ kv[2].required = Some(TRUE)
    THEN SetInsert(required, kv[1])
    ELSE required

RECURSIVE hoist_required(_, _)
hoist_required(required, props) ==
    IF props = <<>> THEN required
    ELSE hoist_required(hoist_one(required, Head(props)), Tail(props))

\* .map(|(k, v)| ...strip...).map(|(k, v)| (k, v.try_into())) on properties
convert_properties(props) ==
    [i \in 1..Len(props) |->
        <<props[i][1], Schema_try_into(strip_required(props[i][2]))>>]

\* .map(|(k, v)| (k, v.try_into())) on pattern_properties
convert_pattern_properties(props) ==
    [i \in 1..Len(props) |-> <<props[i][1], Schema_try_into(props[i][2])>>]

EmptyAcc == [props |-> <<>>, errs |-> <<>>]

Schema_try_into(self) ==
    IF self.kind = "Bool" THEN Ok(BoolSchema(self.b))
    ELSE SchemaObject_try_into(self)

SubschemaValidation_try_into(self) ==
    struct_try(
        [all_of |-> Context(map_vec_schema(self.all_of), "in 'allOf'"),
         any_of |-> Context(map_vec_schema(self.any_of), "in 'anyOf'"),
         one_of |-> Context(map_vec_schema(self.one_of), "in 'oneOf'"),
         not |-> option_schema_try_into(self.not),
         if_schema |-> option_schema_try_into(self.if_schema),
         then_schema |-> option_schema_try_into(self.then_schema),
         else_schema |-> option_schema_try_into(self.else_schema)],
        <<"all_of", "any_of", "one_of", "not", "if_schema", "then_schema",
          "else_schema">>)

ArrayValidation_try_into(self) ==
    struct_try(
        [items |-> option_sov_try_into(self.items),
         additional_items |-> option_schema_try_into(self.additional_items),
         max_items |-> Ok(self.max_items),
         min_items |-> Ok(self.min_items),
         unique_items |-> Ok(self.unique_items),
         contains |-> option_schema_try_into(self.contains)],
        <<"items", "additional_items", "max_items", "min_items",
          "unique_items", "contains">>)

\* properties and pattern_properties are converted, and their errors
\* returned, before the struct literal; `required` is final by then
ObjectValidation_try_into(self) ==
    struct_try(
        [properties |->
            field_errs(fold_process_props(EmptyAcc,
                                          convert_properties(self.properties))),
         pattern_properties |->
            pattern_errs(fold_process_props(EmptyAcc,
                            convert_pattern_properties(self.pattern_properties))),
         max_properties |-> Ok(self.max_properties),
         min_properties |-> Ok(self.min_properties),
         required |-> Ok(hoist_required(self.required, self.properties)),
         additional_properties |-> option_schema_try_into(self.additional_properties),
         property_names |-> option_schema_try_into(self.property_names)],
        <<"properties", "pattern_properties", "max_properties",
          "min_properties", "required", "additional_properties",
          "property_names">>)

\* a slip: only `required: true` is rejected
has_required_true(self) == self.required = Some(TRUE)

\* "if self.required.is_some()"
has_required(self) == self.required # None

\* the three Option<Box<..Validation>> fields of SchemaObject
option_subschemas_try_into(opt) ==
    IF opt = None THEN Ok(None)
    ELSE map_some(SubschemaValidation_try_into(opt[1]))

option_array_try_into(opt) ==
    IF opt = None THEN Ok(None)
    ELSE map_some(ArrayValidation_try_into(opt[1]))

option_object_try_into(opt) ==
    IF opt = None THEN Ok(None)
    ELSE map_some(ObjectValidation_try_into(opt[1]))

SchemaObject_try_into(self) ==
    IF has_required(self) THEN Err(<<IllegalRequired>>)
    ELSE struct_try(
        [kind |-> Ok("Object"),
         metadata |-> Ok(self.metadata),
         instance_type |-> Ok(self.instance_type),
         format |-> Ok(self.format),
         enum_values |-> Ok(self.enum_values),
         const_value |-> Ok(self.const_value),
         subschemas |-> Context(option_subschemas_try_into(self.subschemas),
                                "in subschemas"),
         number |-> Ok(self.number),
         string |-> Ok(self.string),
         array |-> option_array_try_into(self.array),
         object |-> option_object_try_into(self.object),
         reference |-> Ok(self.reference),
         extensions |-> Ok(self.extensions)],
        <<"kind", "metadata", "instance_type", "format", "enum_values",
          "const_value", "subschemas", "number", "string", "array", "object",
          "reference", "extensions">>)

(***************************************************************************)
(* The inputs: bounded sets of values of the five types                    *)
(***************************************************************************)
\* longest explicit `required` set of an input object
MaxReq == 2

\* most entries of one `properties` / `patternProperties` map of an input
MaxProps == 2

\* longest allOf / anyOf / oneOf / items list of an input
MaxList == 2

\* most keyword levels nested under the root of an input
MaxDepth == 3

Keys == {"a", "b", "c"}

PatternKeys == {"^x", "^y"}

\* the sequences of distinct elements of S of length at most n
DistinctSeqs(S, n) ==
    {q \in UNION {[1..m -> S] : m \in 0..n} :
        \A i, j \in 1..Len(q) : i # j => q[i] # q[j]}

\* the maps with at most n entries, keys from K, values from V
Maps(K, V, n) ==
    UNION {{[i \in 1..Len(ks) |-> <<ks[i], vs[i]>>] : vs \in [1..Len(ks) -> V]} :
            ks \in DistinctSeqs(K, n)}

Lists(V, n) == UNION {[1..m -> V] : m \in 0..n}

StringSchema == [DefaultSchemaObject EXCEPT !.instance_type = Some("string")]

Flagged(s, b) == [s EXCEPT !.required = Some(b)]

\* a schema with $ref, const null and an extension keyword
RefSchema ==
    [DefaultSchemaObject EXCEPT !.reference = Some("#/definitions/x"),
                                !.const_value = Some("null"),
                                !.extensions = <<<<"x-ext", "v">>>>]

Leaves ==
    {BoolSchema(TRUE), StringSchema, Flagged(StringSchema, TRUE),
     Flagged(StringSchema, FALSE)}

WithSubschemas(v) == [DefaultSchemaObject EXCEPT !.subschemas = Some(v)]

WithArray(v) == [DefaultSchemaObject EXCEPT !.array = Some(v)]

WithObject(v) == [DefaultSchemaObject EXCEPT !.object = Some(v)]

\* the SubschemaValidation / ArrayValidation / ObjectValidation values with
\* exactly one keyword set, holding the one schema k
SubschemaWraps(k) ==
    {[DefaultSubschemaValidation EXCEPT !.all_of = Some(<<k>>)],
     [DefaultSubschemaValidation EXCEPT !.any_of = Some(<<k>>)],
     [DefaultSubschemaValidation EXCEPT !.one_of = Some(<<k>>)],
     [DefaultSubschemaValidation EXCEPT !.not = Some(k)],
     [DefaultSubschemaValidation EXCEPT !.if_schema = Some(k)],
     [DefaultSubschemaValidation EXCEPT !.then_schema = Some(k)],
     [DefaultSubschemaValidation EXCEPT !.else_schema = Some(k)]}

ArrayWraps(k) ==
    {[DefaultArrayValidation EXCEPT !.items = Some(Single(k))],
     [DefaultArrayValidation EXCEPT !.items = Some(Vec(<<k>>))],
     [DefaultArrayValidation EXCEPT !.additional_items = Some(k)],
     [DefaultArrayValidation EXCEPT !.contains = Some(k)]}

ObjectWraps(k) ==
    {[DefaultObjectValidation EXCEPT !.properties = <<<<"a", k>>>>],
     [DefaultObjectValidation EXCEPT !.pattern_properties = <<<<"^x", k>>>>],
     [DefaultObjectValidation EXCEPT !.additional_properties = Some(k)],
     [DefaultObjectValidation EXCEPT !.property_names = Some(k)]}

\* every one-keyword schema object around k
Wraps(k) ==
    {WithSubschemas(v) : v \in SubschemaWraps(k)}
        \cup {WithArray(v) : v \in ArrayWraps(k)}
        \cup {WithObject(v) : v \in ObjectWraps(k)}

\* one keyword of each shape, for the deeper levels
DeepWraps(k) ==
    {WithSubschemas([DefaultSubschemaValidation EXCEPT !.all_of = Some(<<k>>)]),
     WithArray([DefaultArrayValidation EXCEPT !.items = Some(Single(k))]),
     WithObject([DefaultObjectValidation EXCEPT !.properties = <<<<"a", k>>>>]),
     WithObject([DefaultObjectValidation EXCEPT !.additional_properties = Some(k)])}

\* an object with one property, itself carrying the legacy flag
FlaggedObject(k, b) ==
    Flagged(WithObject([DefaultObjectValidation EXCEPT !.properties = <<<<"b", k>>>>]), b)

\* the schemas with exactly d keyword levels, one child per level
RECURSIVE Level(_)
Level(d) ==
    IF d = 0 THEN Leaves
    ELSE IF d = 1
    THEN UNION {Wraps(k) \cup {FlaggedObject(k, TRUE), FlaggedObject(k, FALSE)} :
                    k \in Level(0)}
    ELSE UNION {DeepWraps(k) \cup {FlaggedObject(k, TRUE)} : k \in Level(d - 1)}

\* schemas whose conversion fails, each with an error of its own
BadItems == WithArray([DefaultArrayValidation EXCEPT
                            !.items = Some(Single(Flagged(StringSchema, TRUE)))])

BadPattern == WithObject([DefaultObjectValidation EXCEPT
                            !.pattern_properties = <<<<"^x", Flagged(StringSchema, FALSE)>>>>])

BadField == WithObject([DefaultObjectValidation EXCEPT !.properties = <<<<"a", BadItems>>>>])

\* the values of the entries of a wide `properties` map
PropKids ==
    Leaves \cup {FlaggedObject(Flagged(StringSchema, TRUE), TRUE), BadItems, BadPattern}

\* the values of the entries of a wide `patternProperties` map
PatternKids == {BoolSchema(FALSE), StringSchema, Flagged(StringSchema, TRUE), BadItems}

\* the elements of a wide list
ElemKids == {StringSchema, Flagged(StringSchema, TRUE), BadPattern, BadField}

ObjectTyped(v) == [WithObject(v) EXCEPT !.instance_type = Some("object")]

\* the shape of customers.customerNumber.contacts.contactNumber.get.schema.json:
\* {"type":"object","properties":{"self":{"type":"string","required":true}}}
ContactGet ==
    ObjectTyped([DefaultObjectValidation EXCEPT
        !.properties = <<<<"self", Flagged(StringSchema, TRUE)>>>>])

\* the shape of customers.get.schema.json: flagged properties of the root and
\* of the object under properties.collection.items
CustomersGet ==
    ObjectTyped([DefaultObjectValidation EXCEPT
        !.properties =
            <<<<"collection",
                [WithArray([DefaultArrayValidation EXCEPT
                    !.items = Some(Single(ObjectTyped([DefaultObjectValidation EXCEPT
                        !.properties = <<<<"name", Flagged(StringSchema, TRUE)>>,
                                         <<"email", Flagged(StringSchema, FALSE)>>,
                                         <<"currency", Flagged(RefSchema, TRUE)>>>>])))])
                 EXCEPT !.instance_type = Some("array")]>>,
              <<"metaData", [DefaultSchemaObject EXCEPT !.instance_type = Some("object")]>>,
              <<"self", Flagged(StringSchema, TRUE)>>>>])

\* the keywords that hold schemas, as <<group field of SchemaObject, field of
\* the group>>
Slots ==
    <<<<"subschemas", "all_of">>, <<"subschemas", "any_of">>,
      <<"subschemas", "one_of">>, <<"subschemas", "not">>,
      <<"subschemas", "if_schema">>, <<"subschemas", "then_schema">>,
      <<"subschemas", "else_schema">>,
      <<"array", "items">>, <<"array", "additional_items">>,
      <<"array", "contains">>,
      <<"object", "properties">>, <<"object", "pattern_properties">>,
      <<"object", "additional_properties">>, <<"object", "property_names">>>>

GroupDefault(g) ==
    IF g = "subschemas" THEN DefaultSubschemaValidation
    ELSE IF g = "array" THEN DefaultArrayValidation
    ELSE DefaultObjectValidation

\* the value of keyword f that holds the one schema k
SlotValue(f, k) ==
    IF f \in {"all_of", "any_of", "one_of"} THEN Some(<<k>>)
    ELSE IF f = "items" THEN Some(Single(k))
    ELSE IF f = "properties" THEN <<<<"a", k>>>>
    ELSE IF f = "pattern_properties" THEN <<<<"^x", k>>>>
    ELSE Some(k)

\* s with the keyword sl holding the one schema k, its other keywords kept
SetSlot(s, sl, k) ==
    [s EXCEPT ![sl[1]] =
        Some([(IF s[sl[1]] = None THEN GroupDefault(sl[1]) ELSE s[sl[1]][1])
                EXCEPT ![sl[2]] = SlotValue(sl[2], k)])]

\* what is put under the keywords of a schema object with several of them
SlotKids == {StringSchema, BadPattern, BadField}

\* schema objects with two keywords set, of one group or of two
TwoSlots ==
    {SetSlot(SetSlot(DefaultSchemaObject, Slots[i], x), Slots[j], y) :
        i \in 1..Len(Slots), j \in 1..Len(Slots), x \in SlotKids, y \in SlotKids}

\* schema objects with a keyword of each of the three groups set
ThreeSlots ==
    {SetSlot(SetSlot(SetSlot(DefaultSchemaObject, Slots[i], x), Slots[j], y),
             Slots[k], z) :
        i \in {1, 4, 7}, j \in 8..10, k \in {11, 12, 14},
        x \in SlotKids, y \in SlotKids, z \in SlotKids}

\* a flagged schema object with a failing schema under one keyword
FlaggedSlots ==
    {Flagged(SetSlot(DefaultSchemaObject, Slots[i], BadField), b) :
        i \in 1..Len(Slots), b \in BOOLEAN}

SchemaInputs == {BoolSchema(TRUE), BoolSchema(FALSE), RefSchema} \cup Leaves

SchemaObjectInputs ==
    UNION {Level(d) : d \in 1..MaxDepth}
        \cup {ContactGet, CustomersGet, Flagged(CustomersGet, TRUE)}
        \cup TwoSlots \cup ThreeSlots \cup FlaggedSlots

ObjectValidationInputs ==
    {[DefaultObjectValidation EXCEPT !.required = r, !.properties = m] :
        r \in DistinctSeqs(Keys, MaxReq), m \in Maps(Keys, Leaves, MaxProps)}
    \cup
    {[DefaultObjectValidation EXCEPT !.required = r, !.properties = m,
                                     !.max_properties = Some(MaxProps)] :
        r \in {<<>>, <<"a">>}, m \in Maps(Keys, PropKids, MaxProps)}
    \cup
    {[DefaultObjectValidation EXCEPT !.properties = m, !.pattern_properties = pm,
                                     !.additional_properties = ap,
                                     !.property_names = pn] :
        m \in {<<>>, <<<<"a", Flagged(StringSchema, TRUE)>>>>, <<<<"a", BadPattern>>>>,
               <<<<"c", Flagged(StringSchema, TRUE)>>, <<"a", StringSchema>>>>},
        pm \in Maps(PatternKeys, PatternKids, MaxProps),
        ap \in {None, Some(StringSchema), Some(Flagged(StringSchema, TRUE))},
        pn \in {None, Some(Flagged(StringSchema, FALSE))}}

SubschemaValidationInputs ==
    UNION {SubschemaWraps(k) : k \in ElemKids}
    \cup {[DefaultSubschemaValidation EXCEPT !.all_of = Some(l)] : l \in Lists(ElemKids, MaxList)}
    \cup {[DefaultSubschemaValidation EXCEPT !.any_of = Some(l)] : l \in Lists(ElemKids, MaxList)}
    \cup {[DefaultSubschemaValidation EXCEPT !.one_of = Some(l)] : l \in Lists(ElemKids, MaxList)}

ArrayValidationInputs ==
    UNION {ArrayWraps(k) : k \in ElemKids}
    \cup {[DefaultArrayValidation EXCEPT !.items = Some(Vec(l)), !.min_items = Some(Len(l))] :
            l \in Lists(ElemKids, MaxList)}

Inputs ==
    {[ty |-> "Schema", val |-> v] : v \in SchemaInputs}
        \cup {[ty |-> "SchemaObject", val |-> v] : v \in SchemaObjectInputs}
        \cup {[ty |-> "SubschemaValidation", val |-> v] : v \in SubschemaValidationInputs}
        \cup {[ty |-> "ArrayValidation", val |-> v] : v \in ArrayValidationInputs}
        \cup {[ty |-> "ObjectValidation", val |-> v] : v \in ObjectValidationInputs}

(***************************************************************************)
(* The state machine: one call of try_into on the input                    *)
(***************************************************************************)
Pending == [tag |-> "Pending"]

Init ==
    /\ input \in Inputs
    /\ output = Pending

CallSchema ==
    /\ output = Pending
    /\ input.ty = "Schema"
    /\ output' = Schema_try_into(input.val)
    /\ UNCHANGED input

CallSchemaObject ==
    /\ output = Pending
    /\ input.ty = "SchemaObject"
    /\ output' = SchemaObject_try_into(input.val)
    /\ UNCHANGED input

CallSubschemaValidation ==
    /\ output = Pending
    /\ input.ty = "SubschemaValidation"
    /\ output' = SubschemaValidation_try_into(input.val)
    /\ UNCHANGED input

CallArrayValidation ==
    /\ output = Pending
    /\ input.ty = "ArrayValidation"
    /\ output' = ArrayValidation_try_into(input.val)
    /\ UNCHANGED input

CallObjectValidation ==
    /\ output = Pending
    /\ input.ty = "ObjectValidation"
    /\ output' = ObjectValidation_try_into(input.val)
    /\ UNCHANGED input

Next ==
    \/ CallSchema
    \/ CallSchemaObject
    \/ CallSubschemaValidation
    \/ CallArrayValidation
    \/ CallObjectValidation

Spec == Init /\ [][Next]_vars

(***************************************************************************)
(* Reading schema trees: the vocabulary of the properties below            *)
(***************************************************************************)
OptVec(o) == IF o = None THEN <<>> ELSE o[1]

SovSeq(o) ==
    IF o = None THEN <<>>
    ELSE IF o[1].sov = "Single" THEN <<o[1].s>> ELSE o[1].v

MapValues(m) == [i \in 1..Len(m) |-> m[i][2]]

SeqSet(q) == {q[i] : i \in 1..Len(q)}

SubschemaChildren(v) ==
    OptVec(v.all_of) \o OptVec(v.any_of) \o OptVec(v.one_of) \o v.not
        \o v.if_schema \o v.then_schema \o v.else_schema

ArrayChildren(v) == SovSeq(v.items) \o v.additional_items \o v.contains

ObjectChildren(v) ==
    MapValues(v.properties) \o MapValues(v.pattern_properties)
        \o v.additional_properties \o v.property_names

\* the schemas directly under a schema (legacy or canonical), in a fixed order
Children(s) ==
    IF s.kind = "Bool" THEN <<>>
    ELSE (IF s.subschemas = None THEN <<>> ELSE SubschemaChildren(s.subschemas[1]))
         \o (IF s.array = None THEN <<>> ELSE ArrayChildren(s.array[1]))
         \o (IF s.object = None THEN <<>> ELSE ObjectChildren(s.object[1]))

\* every schema of a tree, the root included
RECURSIVE AllNodes(_)
AllNodes(s) == {s} \cup UNION {AllNodes(Children(s)[n]) : n \in 1..Len(Children(s))}

\* every schema of a tree below the root
Descendants(s) == UNION {AllNodes(Children(s)[n]) : n \in 1..Len(Children(s))}

\* the pairs <<legacy schema, canonical schema>> at the same place of an input
\* tree and of the tree its conversion returned
RECURSIVE NodePairs(_, _)
NodePairs(i, o) ==
    {<<i, o>>} \cup
        UNION {NodePairs(Children(i)[n], Children(o)[n]) : n \in 1..Len(Children(i))}

HasFlag(s) == s.kind = "Object" /\ s.required # None

HasObject(s) == s.kind = "Object" /\ s.object # None

\* the keys of the entries of a properties map whose schema carries
\* `required: true`, in the order of the map
FlaggedKeys(props) ==
    MapKeys(SelectSeq(props,
        LAMBDA kv : kv[2].kind = "Object" /\ kv[2].required = <<TRUE>>))

\* the canonical type read as a legacy-tolerant value: the same fields, and
\* the legacy flag absent
RECURSIVE LegacySchema(_)

LegacyVec(v) == [i \in 1..Len(v) |-> LegacySchema(v[i])]

LegacyOpt(o) == IF o = None THEN None ELSE <<LegacySchema(o[1])>>

LegacyOptVec(o) == IF o = None THEN None ELSE <<LegacyVec(o[1])>>

LegacyMap(m) == [i \in 1..Len(m) |-> <<m[i][1], LegacySchema(m[i][2])>>]

LegacySubschemaValidation(v) ==
    [all_of |-> LegacyOptVec(v.all_of), any_of |-> LegacyOptVec(v.any_of),
     one_of |-> LegacyOptVec(v.one_of), not |-> LegacyOpt(v.not),
     if_schema |-> LegacyOpt(v.if_schema), then_schema |-> LegacyOpt(v.then_schema),
     else_schema |-> LegacyOpt(v.else_schema)]

LegacyArrayValidation(v) ==
    [v EXCEPT !.items = IF v.items = None THEN None
                        ELSE IF v.items[1].sov = "Single"
                        THEN <<[sov |-> "Single", s |-> LegacySchema(v.items[1].s)]>>
                        ELSE <<[sov |-> "Vec", v |-> LegacyVec(v.items[1].v)]>>,
              !.additional_items = LegacyOpt(v.additional_items),
              !.contains = LegacyOpt(v.contains)]

LegacyObjectValidation(v) ==
    [v EXCEPT !.properties = LegacyMap(v.properties),
              !.pattern_properties = LegacyMap(v.pattern_properties),
              !.additional_properties = LegacyOpt(v.additional_properties),
              !.property_names = LegacyOpt(v.property_names)]

LegacySchema(c) ==
    IF c.kind = "Bool" THEN c
    ELSE [f \in DOMAIN c \cup {"required"} |->
            IF f = "required" THEN None
            ELSE IF f = "subschemas" /\ c.subschemas # None
            THEN <<LegacySubschemaValidation(c.subschemas[1])>>
            ELSE IF f = "array" /\ c.array # None
            THEN <<LegacyArrayValidation(c.array[1])>>
            ELSE IF f = "object" /\ c.object # None
            THEN <<LegacyObjectValidation(c.object[1])>>
            ELSE c[f]]

\* a value of any of the five input types as a schema tree: a validation
\* group is read as the schema object holding just that group
AsSchema(ty, v) ==
    IF ty = "SubschemaValidation" THEN WithSubschemas(v)
    ELSE IF ty = "ArrayValidation" THEN WithArray(v)
    ELSE IF ty = "ObjectValidation" THEN WithObject(v)
    ELSE v

Done == output # Pending

Succeeded == output # Pending /\ output.tag = "Ok"

Failed == output # Pending /\ output.tag = "Err"

InTree == AsSchema(input.ty, input.val)

\* a returned value of the type converted from ty, read as a value of ty
Reread(ty, c) ==
    IF ty = "SubschemaValidation" THEN LegacySubschemaValidation(c)
    ELSE IF ty = "ArrayValidation" THEN LegacyArrayValidation(c)
    ELSE IF ty = "ObjectValidation" THEN LegacyObjectValidation(c)
    ELSE LegacySchema(c)

\* try_into on a value of type ty
Convert(ty, v) ==
    IF ty = "SubschemaValidation" THEN SubschemaValidation_try_into(v)
    ELSE IF ty = "ArrayValidation" THEN ArrayValidation_try_into(v)
    ELSE IF ty = "ObjectValidation" THEN ObjectValidation_try_into(v)
    ELSE IF ty = "SchemaObject" THEN SchemaObject_try_into(v)
    ELSE Schema_try_into(v)

\* the returned tree, read back as a legacy-tolerant value
OutTree == AsSchema(input.ty, Reread(input.ty, output.val))

RootIsSchema == input.ty \in {"Schema", "SchemaObject"}

OutRaw == AsSchema(input.ty, output.val)

\* the pairs of an input schema and the canonical schema returned for it
Pairs == NodePairs(InTree, OutRaw)

\* a canonical schema has no field for the legacy flag
NoFlagField(c) == c.kind = "Bool" \/ "required" \notin DOMAIN c

Unflagged(s) == IF s.kind = "Bool" THEN s ELSE [s EXCEPT !.required = None]

IsLeaf(s) ==
    s.kind = "Bool" \/ (s.subschemas = None /\ s.array = None /\ s.object = None)

ScalarFields ==
    {"kind", "metadata", "instance_type", "format", "enum_values", "const_value",
     "number", "string", "reference", "extensions"}

SameScalars(i, o) ==
    IF i.kind = "Bool" THEN o = i
    ELSE o.kind = "Object" /\ \A f \in ScalarFields : o[f] = i[f]

(***************************************************************************)
(* C1                                                                      *)
(***************************************************************************)
\* C1: converting a schema object that itself carries the legacy flag, true
\* or false, fails with exactly the "illegal required annotation" error,
\* whatever the rest of the tree holds.
C1_RootFlagRejected ==
    (Done /\ RootIsSchema /\ HasFlag(input.val))
        => output = Err(<<IllegalRequired>>)

C1_Witness ==
    /\ Done /\ RootIsSchema /\ HasFlag(input.val)
    /\ input.val.required = Some(FALSE)
    /\ input.val.object # None
    /\ output = Err(<<IllegalRequired>>)

(***************************************************************************)
(* C2                                                                      *)
(***************************************************************************)
\* C2 as stated: for an object with no explicit `required` and a property p
\* flagged true, after a successful conversion p is in the canonical
\* `required` set and the canonical properties.p is p's schema without the
\* flag, every other keyword unchanged.
C2_OtherKeywordsUnchanged ==
    Succeeded =>
        \A pr \in Pairs :
            (HasObject(pr[1]) /\ pr[1].object[1].required = <<>>) =>
                \A n \in 1..Len(pr[1].object[1].properties) :
                    LET kv == pr[1].object[1].properties[n]
                        okv == pr[2].object[1].properties[n]
                    IN  (kv[2].kind = "Object" /\ kv[2].required = Some(TRUE)) =>
                            /\ SetContains(pr[2].object[1].required, kv[1])
                            /\ okv[1] = kv[1]
                            /\ LegacySchema(okv[2]) = Unflagged(kv[2])

\* C2 amended: ... p is in the canonical `required` set, and the canonical
\* properties.p carries no legacy flag, keeps p's non-schema keywords, and is
\* the conversion of p's schema without the flag (its nested schemas are
\* converted in turn).
C2_HoistedAndConverted ==
    Succeeded =>
        \A pr \in Pairs :
            (HasObject(pr[1]) /\ pr[1].object[1].required = <<>>) =>
                \A n \in 1..Len(pr[1].object[1].properties) :
                    LET kv == pr[1].object[1].properties[n]
                        okv == pr[2].object[1].properties[n]
                    IN  (kv[2].kind = "Object" /\ kv[2].required = Some(TRUE)) =>
                            /\ SetContains(pr[2].object[1].required, kv[1])
                            /\ okv[1] = kv[1]
                            /\ NoFlagField(okv[2])
                            /\ SameScalars(kv[2], okv[2])
                            /\ Ok(okv[2]) = Schema_try_into(Unflagged(kv[2]))

\* the example of the spec, and a flagged property whose own schema changes
C2_Witness ==
    /\ Succeeded
    /\ input.ty = "ObjectValidation"
    /\ input.val.required = <<>>
    /\ \E n \in 1..Len(input.val.properties) :
        /\ input.val.properties[n][2] = FlaggedObject(Flagged(StringSchema, TRUE), TRUE)
        /\ SetContains(output.val.required, input.val.properties[n][1])
        /\ output.val.properties[n][2].object[1].required = <<"b">>

(***************************************************************************)
(* C3                                                                      *)
(***************************************************************************)
\* C3: the canonical `required` set of an object is its explicit entries, in
\* their order, followed by the names of its properties flagged true that are
\* not among them, in property order; no name occurs twice.
C3_ExplicitThenHoisted ==
    Succeeded =>
        \A pr \in Pairs :
            HasObject(pr[1]) =>
                LET E == pr[1].object[1].required
                    H == FlaggedKeys(pr[1].object[1].properties)
                    R == pr[2].object[1].required
                IN  /\ R = E \o SelectSeq(H, LAMBDA k : k \notin SeqSet(E))
                    /\ SeqSet(R) = SeqSet(E) \cup SeqSet(H)
                    /\ Cardinality(SeqSet(R)) = Len(R)

\* "c" is explicit and hoisted, "b" is hoisted only and declared before "c"
C3_Witness ==
    /\ Succeeded
    /\ input.ty = "ObjectValidation"
    /\ input.val.required = <<"c">>
    /\ FlaggedKeys(input.val.properties) = <<"b", "c">>
    /\ output.val.required = <<"c", "b">>

(***************************************************************************)
(* C4                                                                      *)
(***************************************************************************)
\* the object holds nothing but `required` and a properties map of schemas
\* without nested schemas
OnlyLeafProperties(v) ==
    /\ v.pattern_properties = <<>>
    /\ v.additional_properties = None
    /\ v.property_names = None
    /\ \A n \in 1..Len(v.properties) : IsLeaf(v.properties[n][2])

\* C4: after a successful conversion the `required` set of every canonical
\* object holds exactly its explicit entries and the names of its properties
\* flagged true; a property flagged false, unflagged or boolean is converted
\* without error, carries no flag afterwards, and is in the set only if it
\* is an explicit entry.
C4_RequiredExactly ==
    /\ Succeeded =>
        \A pr \in Pairs :
            HasObject(pr[1]) =>
                LET iv == pr[1].object[1]
                    ov == pr[2].object[1]
                IN  /\ SeqSet(ov.required) =
                            SeqSet(iv.required) \cup SeqSet(FlaggedKeys(iv.properties))
                    /\ \A n \in 1..Len(iv.properties) :
                        /\ NoFlagField(ov.properties[n][2])
                        /\ (iv.properties[n][2].kind = "Bool"
                                \/ iv.properties[n][2].required # Some(TRUE))
                            => (SetContains(ov.required, iv.properties[n][1])
                                    <=> SetContains(iv.required, iv.properties[n][1]))
    /\ (Done /\ input.ty = "ObjectValidation" /\ OnlyLeafProperties(input.val))
            => Succeeded

\* a property flagged false and a boolean property, the latter explicit
C4_Witness ==
    /\ Succeeded
    /\ input.ty = "ObjectValidation"
    /\ input.val.required = <<"b">>
    /\ input.val.properties =
            <<<<"a", Flagged(StringSchema, FALSE)>>, <<"b", BoolSchema(TRUE)>>>>
    /\ output.val.required = <<"b">>
    /\ output.val.properties[1][2].instance_type = Some("string")

(***************************************************************************)
(* C5                                                                      *)
(***************************************************************************)
\* the names of the flagged properties of the objects strictly below s
NestedFlaggedKeys(s) ==
    UNION {SeqSet(FlaggedKeys(d.object[1].properties)) :
            d \in {x \in Descendants(s) : HasObject(x)}}

\* C5: in a tree of nested objects every flag is hoisted into the `required`
\* set of the object whose property carries it, at every depth, and into no
\* ancestor's set: a name flagged only deeper down is not in an object's set.
C5_NearestEnclosingObject ==
    Succeeded =>
        \A pr \in Pairs :
            HasObject(pr[1]) =>
                LET iv == pr[1].object[1]
                    ov == pr[2].object[1]
                    own == SeqSet(iv.required) \cup SeqSet(FlaggedKeys(iv.properties))
                IN  /\ \A k \in SeqSet(FlaggedKeys(iv.properties)) :
                            SetContains(ov.required, k)
                    /\ \A k \in NestedFlaggedKeys(pr[1]) \ own :
                            ~SetContains(ov.required, k)

\* customers.get.schema.json: "self" hoisted at the root, "name" and
\* "currency" hoisted in the object under collection.items, not at the root
C5_Witness ==
    /\ Succeeded
    /\ input.val = CustomersGet
    /\ output.val.object[1].required = <<"self">>
    /\ output.val.object[1].properties[1][2].array[1].items[1].s.object[1].required
            = <<"name", "currency">>

(***************************************************************************)
(* C6                                                                      *)
(***************************************************************************)
NoFlags(s) == \A n \in AllNodes(s) : ~HasFlag(n)

\* C6: a tree in which no schema object carries the legacy flag converts
\* successfully into a tree equal to it field for field; and converting what
\* a successful conversion returned, read back, returns it unchanged.
C6_CanonicalUnchanged ==
    /\ (Done /\ NoFlags(InTree)) => (Succeeded /\ OutTree = InTree)
    /\ Succeeded => Convert(input.ty, Reread(input.ty, output.val)) = output

\* an object with an explicit `required` set and two unflagged properties,
\* declared out of lexical order
C6_Witness ==
    /\ Succeeded
    /\ NoFlags(InTree)
    /\ input.ty = "ObjectValidation"
    /\ Len(input.val.required) = 2
    /\ Len(input.val.properties) = 2
    /\ input.val.properties[1][1] = "c"
    /\ input.val.properties[2][2] = BoolSchema(TRUE)
    /\ OutTree = InTree

(***************************************************************************)
(* C7                                                                      *)
(***************************************************************************)
ElemResults(l) == [i \in 1..Len(l) |-> Schema_try_into(l[i])]

PropResults(m) == [i \in 1..Len(m) |-> Schema_try_into(Unflagged(m[i][2]))]

AnyFailing(rs) == \E i \in 1..Len(rs) : IsErr(rs[i])

FirstFailing(rs) ==
    CHOOSE i \in 1..Len(rs) : IsErr(rs[i]) /\ \A j \in 1..(i - 1) : IsOk(rs[j])

FirstErr(rs) == rs[FirstFailing(rs)].err

\* C7: when elements of one list or entries of one map fail to convert, the
\* error returned is that of the first failing one in iteration order (under
\* the context of its keyword), and no canonical value is returned.
C7_FirstErrorInOrder ==
    /\ Failed => DOMAIN output = {"tag", "err"}
    /\ (Done /\ input.ty = "SubschemaValidation") =>
        LET a == ElemResults(OptVec(input.val.all_of))
            b == ElemResults(OptVec(input.val.any_of))
            c == ElemResults(OptVec(input.val.one_of))
        IN  /\ AnyFailing(a) => output = Err(Append(FirstErr(a), "in 'allOf'"))
            /\ (~AnyFailing(a) /\ AnyFailing(b))
                    => output = Err(Append(FirstErr(b), "in 'anyOf'"))
            /\ (~AnyFailing(a) /\ ~AnyFailing(b) /\ AnyFailing(c))
                    => output = Err(Append(FirstErr(c), "in 'oneOf'"))
    /\ (Done /\ input.ty = "ArrayValidation") =>
        LET a == ElemResults(SovSeq(input.val.items))
        IN  AnyFailing(a) => output = Err(FirstErr(a))
    /\ (Done /\ input.ty = "ObjectValidation") =>
        LET a == PropResults(input.val.properties)
            b == ElemResults(MapValues(input.val.pattern_properties))
        IN  /\ AnyFailing(a) =>
                    output = Err(Append(FirstErr(a),
                                InField(input.val.properties[FirstFailing(a)][1])))
            /\ (~AnyFailing(a) /\ AnyFailing(b)) =>
                    output = Err(Append(FirstErr(b),
                                InPatternProperty(
                                    input.val.pattern_properties[FirstFailing(b)][1])))

\* two failing elements of one allOf, with different errors
C7_Witness ==
    /\ Failed
    /\ input.ty = "SubschemaValidation"
    /\ input.val.all_of = Some(<<BadPattern, Flagged(StringSchema, TRUE)>>)
    /\ output = Err(<<IllegalRequired, InPatternProperty("^x"), "in 'allOf'">>)

(***************************************************************************)
(* C8                                                                      *)
(***************************************************************************)
\* the result of the one schema directly under the input, converted the way
\* its place converts it
OnlyChildResult ==
    IF HasObject(InTree) /\ InTree.object[1].properties # <<>>
    THEN Schema_try_into(Unflagged(Children(InTree)[1]))
    ELSE Schema_try_into(Children(InTree)[1])

\* C8: an error carries a context segment for every keyword level between
\* the failing schema and the value converted: with one schema under the
\* input, the error returned is that schema's error and at least one more
\* segment after it, "in field 'k'" under properties, "in pattern property
\* 'p'" under patternProperties, a segment naming the keyword under items,
\* additionalItems, contains, additionalProperties and propertyNames.
C8_SegmentPerKeyword ==
    (Failed /\ ~HasFlag(InTree) /\ Len(Children(InTree)) = 1) =>
        LET ce == OnlyChildResult.err IN
        /\ Len(output.err) > Len(ce)
        /\ SubSeq(output.err, 1, Len(ce)) = ce
        /\ (HasObject(InTree) /\ InTree.object[1].properties # <<>>)
                => output.err[Len(ce) + 1] = InField(InTree.object[1].properties[1][1])
        /\ (HasObject(InTree) /\ InTree.object[1].pattern_properties # <<>>)
                => output.err[Len(ce) + 1] =
                        InPatternProperty(InTree.object[1].pattern_properties[1][1])

(***************************************************************************)
(* C9                                                                      *)
(***************************************************************************)
\* C9: a failure under a composition keyword yields an error tagged with
\* that keyword, so that the same failure under another composition keyword
\* yields another error, and under allOf / anyOf / oneOf also with the
\* position, so that the same failure at another position yields another
\* error.
C9_KeywordAndPosition ==
    /\ (Failed /\ input.ty = "SubschemaValidation"
            /\ Len(SubschemaChildren(input.val)) = 1) =>
        LET k == SubschemaChildren(input.val)[1] IN
        /\ Len(output.err) > Len(Schema_try_into(k).err)
        /\ \A other \in SubschemaWraps(k) \ {input.val} :
                SubschemaValidation_try_into(other) # output
    /\ (Failed /\ input.ty = "SubschemaValidation"
            /\ Len(OptVec(input.val.all_of)) = 2
            /\ IsOk(Schema_try_into(input.val.all_of[1][1]))) =>
        output # SubschemaValidation_try_into(
                    [input.val EXCEPT !.all_of = Some(<<input.val.all_of[1][2]>>)])

(***************************************************************************)
(* C10                                                                     *)
(***************************************************************************)
\* C10: the entries of patternProperties are converted like those of
\* properties, a legacy flag on a pattern-property schema being stripped,
\* and no pattern key is ever added to the canonical `required` set.
C10_PatternFlagStripped ==
    /\ Succeeded =>
        \A pr \in Pairs :
            HasObject(pr[1]) =>
                \A n \in 1..Len(pr[1].object[1].pattern_properties) :
                    LET key == pr[1].object[1].pattern_properties[n][1]
                    IN  SetContains(pr[2].object[1].required, key)
                            => SetContains(pr[1].object[1].required, key)
    /\ (Done /\ input.ty = "ObjectValidation"
            /\ input.val.properties = <<>>
            /\ input.val.additional_properties = None
            /\ input.val.property_names = None
            /\ \A n \in 1..Len(input.val.pattern_properties) :
                    IsLeaf(input.val.pattern_properties[n][2])) =>
        /\ Succeeded
        /\ output.val.required = input.val.required
        /\ \A n \in 1..Len(input.val.pattern_properties) :
            /\ output.val.pattern_properties[n][1] = input.val.pattern_properties[n][1]
            /\ LegacySchema(output.val.pattern_properties[n][2])
                    = Unflagged(input.val.pattern_properties[n][2])

(***************************************************************************)
(* C11                                                                     *)
(***************************************************************************)
\* the entries of a converted map against those of the input map: the same
\* keys at the same positions, each value the conversion of its input
C11_SameEntries(im, om, stripped) ==
    /\ Len(om) = Len(im)
    /\ MapKeys(om) = MapKeys(im)
    /\ \A n \in 1..Len(im) :
            Ok(om[n][2]) = Schema_try_into(IF stripped THEN Unflagged(im[n][2])
                                           ELSE im[n][2])

\* C11: after a successful conversion of an object, the canonical
\* `properties` map and the canonical `patternProperties` map have the keys
\* of the input map, in the input's iteration order, each mapped to the
\* conversion of its input schema (for `properties`, of the schema less its
\* flag); nothing is dropped, added or reordered, whatever the lexical order
\* of the keys.
C11_MapOrderPreserved ==
    /\ (Succeeded /\ input.ty = "ObjectValidation") =>
            /\ C11_SameEntries(input.val.properties, output.val.properties, TRUE)
            /\ C11_SameEntries(input.val.pattern_properties,
                               output.val.pattern_properties, FALSE)
    /\ Succeeded =>
        \A pr \in Pairs :
            (HasObject(pr[1]) /\ pr[2].kind = "Object" /\ pr[2].object # None) =>
                /\ C11_SameEntries(pr[1].object[1].properties,
                                   pr[2].object[1].properties, TRUE)
                /\ C11_SameEntries(pr[1].object[1].pattern_properties,
                                   pr[2].object[1].pattern_properties, FALSE)

\* both maps hold two entries whose keys are out of lexical order
C11_Witness ==
    /\ Succeeded
    /\ input.ty = "ObjectValidation"
    /\ MapKeys(input.val.properties) = <<"c", "a">>
    /\ MapKeys(input.val.pattern_properties) = <<"^y", "^x">>
    /\ MapKeys(output.val.properties) = <<"c", "a">>
    /\ MapKeys(output.val.pattern_properties) = <<"^y", "^x">>
    /\ output.val.required = <<"c">>

(***************************************************************************)
(* C12                                                                     *)
(***************************************************************************)
\* the schemas directly under s that are not values of its `properties`
NonPropertyChildren(s) ==
    IF s.kind = "Bool" THEN <<>>
    ELSE (IF s.subschemas = None THEN <<>> ELSE SubschemaChildren(s.subschemas[1]))
         \o (IF s.array = None THEN <<>> ELSE ArrayChildren(s.array[1]))
         \o (IF s.object = None THEN <<>>
             ELSE MapValues(s.object[1].pattern_properties)
                    \o s.object[1].additional_properties
                    \o s.object[1].property_names)

\* the values of the `properties` entries of s
PropertyValues(s) ==
    IF HasObject(s) THEN MapValues(s.object[1].properties) ELSE <<>>

\* s or a schema reachable from s carries the legacy flag elsewhere than as
\* the direct value of a `properties` entry
RECURSIVE HasIllegalFlag(_)
HasIllegalFlag(s) ==
    \/ HasFlag(s)
    \/ \E n \in 1..Len(NonPropertyChildren(s)) :
            HasIllegalFlag(NonPropertyChildren(s)[n])
    \/ \E n \in 1..Len(PropertyValues(s)) :
            HasIllegalFlag(Unflagged(PropertyValues(s)[n]))

\* C12: a conversion succeeds exactly when neither the schema converted nor
\* a schema reachable from it carries the legacy flag elsewhere than as the
\* direct value of a `properties` entry; a flag, true or false, at any other
\* place makes the whole conversion fail with the "illegal required
\* annotation" error as its cause, and a flag on a direct `properties` value
\* never does.
C12_FailsIffIllegalFlag ==
    /\ Done => (Failed <=> HasIllegalFlag(InTree))
    /\ Failed => output.err[1] = IllegalRequired

\* a flag two keywords down, under properties.a.items, fails the root
C12_Witness ==
    /\ Failed
    /\ input.ty = "SchemaObject"
    /\ input.val = BadField
    /\ ~HasFlag(input.val)
    /\ HasIllegalFlag(input.val)
    /\ output = Err(<<IllegalRequired, InField("a")>>)

(***************************************************************************)
(* C13                                                                     *)
(***************************************************************************)
\* s with no keyword that holds schemas but sl
OnlySlot(s, sl) ==
    [s EXCEPT
        !.subschemas = None, !.array = None, !.object = None,
        ![sl[1]] = IF s[sl[1]] = None THEN None
                   ELSE Some([GroupDefault(sl[1]) EXCEPT
                                ![sl[2]] = s[sl[1]][1][sl[2]]])]

\* the result for s were the n-th keyword the only one it has
Alone(s, n) == SchemaObject_try_into(OnlySlot(s, Slots[n]))

FailingSlots(s) == {n \in 1..Len(Slots) : IsErr(Alone(s, n))}

\* the groups of SchemaObject in which some keyword of s fails
FailingGroups(s) == {Slots[n][1] : n \in FailingSlots(s)}

\* C13: when a schema object fails in more than one keyword or keyword
\* group, the error returned is fixed by precedence: its own flag first,
\* else the error of the first failing keyword in the order allOf, anyOf,
\* oneOf, not, if, then, else, items, additionalItems, contains, properties,
\* patternProperties, additionalProperties, propertyNames.
C13_FixedPrecedence ==
    (Done /\ RootIsSchema /\ input.val.kind = "Object") =>
        /\ HasFlag(input.val) => output = Err(<<IllegalRequired>>)
        /\ (~HasFlag(input.val) /\ FailingSlots(input.val) # {}) =>
                output = Alone(input.val,
                               CHOOSE n \in FailingSlots(input.val) :
                                    \A j \in FailingSlots(input.val) : n <= j)
        /\ (~HasFlag(input.val) /\ FailingSlots(input.val) = {}) => Succeeded

\* `not` converts; `contains` and `propertyNames` both fail, with different
\* errors, and the error of `contains` is the one returned
C13_Witness ==
    /\ Failed
    /\ input.ty = "SchemaObject"
    /\ ~HasFlag(input.val)
    /\ input.val.subschemas # None /\ input.val.array # None /\ input.val.object # None
    /\ FailingGroups(input.val) = {"array", "object"}
    /\ input.val.array[1].contains = Some(BadField)
    /\ input.val.object[1].property_names = Some(BadPattern)
    /\ Alone(input.val, 14) = Err(<<IllegalRequired, InPatternProperty("^x")>>)
    /\ output = Err(<<IllegalRequired, InField("a")>>)

====
